---- MODULE Spec2Model ----
(***************************************************************************)
(* Model of perspective.py: the equirectangular-to-cubemap projection      *)
(* (perspective_projection, rotation_matrix, equirectangular_to_cubemap)   *)
(* and the batch driver process_panoramas.                                 *)
(*                                                                         *)
(* Numbers.  Rays are kept exact: a vector is a record [x, y, z, n2] that  *)
(* stands for (x, y, z) / sqrt(n2).  Angles are degrees that are multiples *)
(* of 90, so that cos and sin are the integers -1, 0, 1.  File names are   *)
(* sequences of one-character strings.                                     *)
(***************************************************************************)
EXTENDS Integers, Sequences, FiniteSets, TLC

VARIABLES
    \* ---- process_panoramas ----
    listing,     \* os.listdir(input_folder): the entries, in the order returned
    disk,        \* what cv2.imread returns for each entry: None or an image
    face_size,   \* the face_size argument of process_panoramas
    idx,         \* position of the for loop in listing
    written,     \* the cv2.imwrite calls made so far, in order
    files,       \* the output folder: path -> image last written there
    pc,          \* "loop" | "done"
    \* ---- equirectangular_to_cubemap / perspective_projection ----
    e_img,       \* the panorama handed to the engine: [height, width]
    e_size,      \* its face_size argument
    e_todo,      \* (yaw, pitch, roll) of the calls still to make
    e_ang,       \* (yaw, pitch, roll) of the call in progress
    e_pc,        \* position inside perspective_projection
    e_vec,       \* the ray grid, row-major
    e_R,         \* the composed rotation
    e_map,       \* (lon, lat) of every ray
    e_faces,     \* faces returned so far
    e_err,       \* the exception that ended the call, or "none"
    \* ---- rotation_matrix called on its own ----
    rm_axis, rm_out,
    \* ---- cv2.remap sampling one destination pixel ----
    r_pano, r_x, r_y, r_cols, r_rows, r_out, r_pc

b_vars == <<listing, disk, face_size, idx, written, files, pc>>
e_vars == <<e_img, e_size, e_todo, e_ang, e_pc, e_vec, e_R, e_map, e_faces, e_err>>
rm_vars == <<rm_axis, rm_out>>
r_vars == <<r_pano, r_x, r_y, r_cols, r_rows, r_out, r_pc>>
vars == <<b_vars, e_vars, rm_vars, r_vars>>

\* What cv2.imread hands back: None, or an array with a shape
NoneImg == [none |-> TRUE, height |-> 0, width |-> 0]

Image(h, w) == [none |-> FALSE, height |-> h, width |-> w]

\* ------------------------------------------------------------------------
\* Bounds of the model
\* ------------------------------------------------------------------------
MaxEntries == 2
MaxFaceSize == 3
MaxRows == 2
MaxCols == 2

\* ------------------------------------------------------------------------
\* File names and paths
\* ------------------------------------------------------------------------
FileNames ==
    { <<"a", ".", "j", "p", "g">>,
      <<"a", ".", "p", "n", "g">>,
      <<"b", ".", "J", "P", "G">>,
      <<"a", ".", "b", ".", "j", "p", "e", "g">>,
      <<"a", ".", "t", "x", "t">>,
      <<".", "j", "p", "g">> }

\* str.lower, on the letters that occur
lower_char(c) ==
    CASE c = "J" -> "j"
      [] c = "P" -> "p"
      [] c = "G" -> "g"
      [] OTHER -> c

lower(s) == [i \in 1..Len(s) |-> lower_char(s[i])]

endswith(s, suffix) ==
    /\ Len(s) >= Len(suffix)
    /\ SubSeq(s, Len(s) - Len(suffix) + 1, Len(s)) = suffix

Extensions ==
    { <<".", "j", "p", "g">>, <<".", "j", "p", "e", "g">>, <<".", "p", "n", "g">> }

\* filename.lower().endswith(('.jpg', '.jpeg', '.png'))
accepted(filename) == \E suffix \in Extensions : endswith(lower(filename), suffix)

\* str.rfind('.'), 1-based, 0 when there is none
rfind_dot(p) ==
    LET dots == {i \in 1..Len(p) : p[i] = "."}
    IN  IF dots = {} THEN 0 ELSE CHOOSE i \in dots : \A j \in dots : j <= i

\* os.path.splitext: the extension starts at the last dot, unless that dot
\* is one of the leading dots of the name
splitext(p) ==
    LET dotIndex == rfind_dot(p)
    IN  IF dotIndex > 0 /\ \E k \in 1..(dotIndex - 1) : p[k] # "."
        THEN <<SubSeq(p, 1, dotIndex - 1), SubSeq(p, dotIndex, Len(p))>>
        ELSE <<p, <<>> >>

face_names_swapped == <<"front", "left", "back", "right">>

face_names == <<"front", "right", "back", "left">>

chars(face) ==
    CASE face = "front" -> <<"f", "r", "o", "n", "t">>
      [] face = "right" -> <<"r", "i", "g", "h", "t">>
      [] face = "back"  -> <<"b", "a", "c", "k">>
      [] face = "left"  -> <<"l", "e", "f", "t">>

\* f"{base_name}_{face}.jpg"
output_path(base_name, face) ==
    base_name \o <<"_">> \o chars(face) \o <<".", "j", "p", "g">>

\* ------------------------------------------------------------------------
\* perspective_projection: the ray grid
\* ------------------------------------------------------------------------
ValueError == "ValueError"

\* How a call ends: with a value, or with an exception
Return(v) == [exc |-> "none", val |-> v]

Raise(e) == [exc |-> e, val |-> <<>>]

\* np.linspace(start, stop, num), endpoint included, as fractions n/d.
\* num < 0 raises; num = 0 is empty; num = 1 is [start] (the step is never
\* applied); otherwise start + i * (stop - start) / (num - 1).
linspace(start, stop, num) ==
    IF num < 0 THEN Raise(ValueError)
    ELSE IF num = 1 THEN Return(<< [n |-> start, d |-> 1] >>)
    ELSE Return([i \in 1..num |->
            [n |-> start * (num - 1) + (i - 1) * (stop - start), d |-> num - 1]])

\* x, y = linspace(-1, 1, face_size); xv, yv = meshgrid(x, -y);
\* zv = ones_like(xv); flattened row-major as reshape(-1, 3) does later.
\* The vector of cell k is (xv, yv, zv) = (x.n, -y.n, d) / d.
ray_grid(size) ==
    LET x == linspace(-1, 1, size)
        y == linspace(-1, 1, size)
    IN  IF x.exc # "none" THEN x
        ELSE Return([k \in 1..(size * size) |->
            LET r == ((k - 1) \div size) + 1
                c == ((k - 1) % size) + 1
            IN  [x |-> x.val[c].n, y |-> -(y.val[r].n), z |-> x.val[c].d,
                 n2 |-> x.val[c].d * x.val[c].d]])

\* norm = sqrt(xv**2 + yv**2 + zv**2); xv /= norm; yv /= norm; zv /= norm
normalize(v) == [v EXCEPT !.n2 = v.x * v.x + v.y * v.y + v.z * v.z]

\* np.tan(np.deg2rad(fov / 2)) for fov = 90 (1 up to one unit in the last
\* place in floating point)
tan_theta == 1

\* xv = xv * tan(theta); yv = yv * tan(theta); zv = zv * ones
fov_scale(v) == [v EXCEPT !.x = v.x * tan_theta, !.y = v.y * tan_theta]

\* ------------------------------------------------------------------------
\* rotation_matrix and the composed rotation
\* ------------------------------------------------------------------------
InvalidAxis == "ValueError: Invalid rotation axis"

\* np.deg2rad, in units of a quarter turn, for multiples of 90 degrees
deg2rad(deg) == deg \div 90

cos(q) == CASE q % 4 = 0 -> 1 [] q % 4 = 2 -> -1 [] OTHER -> 0

sin(q) == CASE q % 4 = 1 -> 1 [] q % 4 = 3 -> -1 [] OTHER -> 0

rotation_matrix_transposed(angle, axis) ==
    IF axis = "x" THEN
        Return(<< <<1, 0, 0>>,
           <<0, cos(angle), sin(angle)>>,
           <<0, -sin(angle), cos(angle)>> >>)
    ELSE IF axis = "y" THEN
        Return(<< <<cos(angle), 0, -sin(angle)>>,
           <<0, 1, 0>>,
           <<sin(angle), 0, cos(angle)>> >>)
    ELSE IF axis = "z" THEN
        Return(<< <<cos(angle), sin(angle), 0>>,
           <<-sin(angle), cos(angle), 0>>,
           <<0, 0, 1>> >>)
    ELSE Raise(InvalidAxis)

rotation_matrix_lenient(angle, axis) ==
    IF axis = "x" THEN
        Return(<< <<1, 0, 0>>,
           <<0, cos(angle), -sin(angle)>>,
           <<0, sin(angle), cos(angle)>> >>)
    ELSE IF axis = "z" THEN
        Return(<< <<cos(angle), -sin(angle), 0>>,
           <<sin(angle), cos(angle), 0>>,
           <<0, 0, 1>> >>)
    ELSE
        Return(<< <<cos(angle), 0, sin(angle)>>,
           <<0, 1, 0>>,
           <<-sin(angle), 0, cos(angle)>> >>)

rotation_matrix(angle, axis) ==
    IF axis = "x" THEN
        Return(<< <<1, 0, 0>>,
           <<0, cos(angle), -sin(angle)>>,
           <<0, sin(angle), cos(angle)>> >>)
    ELSE IF axis = "y" THEN
        Return(<< <<cos(angle), 0, sin(angle)>>,
           <<0, 1, 0>>,
           <<-sin(angle), 0, cos(angle)>> >>)
    ELSE IF axis = "z" THEN
        Return(<< <<cos(angle), -sin(angle), 0>>,
           <<sin(angle), cos(angle), 0>>,
           <<0, 0, 1>> >>)
    ELSE Raise(InvalidAxis)

\* A @ B for 3x3 matrices
matmul(A, B) ==
    [i \in 1..3 |-> [j \in 1..3 |->
        A[i][1] * B[1][j] + A[i][2] * B[2][j] + A[i][3] * B[3][j]]]

\* R @ vec for one column of vec
rotate(R, v) ==
    [v EXCEPT !.x = R[1][1] * v.x + R[1][2] * v.y + R[1][3] * v.z,
              !.y = R[2][1] * v.x + R[2][2] * v.y + R[2][3] * v.z,
              !.z = R[3][1] * v.x + R[3][2] * v.y + R[3][3] * v.z]

\* R_yaw = rotation_matrix(yaw, 'y'); R_pitch = rotation_matrix(pitch, 'x');
\* R_roll = rotation_matrix(roll, 'z'); R = R_roll @ R_pitch @ R_yaw.
\* An exception of rotation_matrix propagates.
compose_rotation(yaw, pitch, roll) ==
    LET R_yaw   == rotation_matrix(deg2rad(yaw), "y")
        R_pitch == rotation_matrix(deg2rad(pitch), "x")
        R_roll  == rotation_matrix(deg2rad(roll), "z")
    IN  IF R_yaw.exc # "none" THEN R_yaw
        ELSE IF R_pitch.exc # "none" THEN R_pitch
        ELSE IF R_roll.exc # "none" THEN R_roll
        ELSE Return(matmul(matmul(R_roll.val, R_pitch.val), R_yaw.val))

\* ------------------------------------------------------------------------
\* Back to spherical coordinates
\* ------------------------------------------------------------------------
RECURSIVE gcd(_, _)
gcd(a, b) == IF b = 0 THEN a ELSE gcd(b, a % b)

abs(a) == IF a < 0 THEN -a ELSE a

sign(a) == IF a < 0 THEN -1 ELSE IF a > 0 THEN 1 ELSE 0

\* np.arctan2(x, z): the angle of the direction (x, z), kept as that
\* direction in lowest terms; it forgets the length and nothing else.
\* arctan2(0, 0) is 0, the angle of (0, 1).
arctan2(x, z) ==
    LET g == gcd(abs(x), abs(z))
    IN  IF g = 0 THEN <<0, 1>> ELSE <<x \div g, z \div g>>

\* np.arcsin(y / sqrt(n2)): the angle is fixed by the sign of y and by the
\* fraction y^2 / n2, kept in lowest terms
arcsin(y, n2) ==
    LET g == gcd(y * y, n2)
    IN  <<sign(y), (y * y) \div g, n2 \div g>>

\* lon = arctan2(vec_rot[:,0], vec_rot[:,2]); lat = arcsin(vec_rot[:,1]);
\* src_x = (lon + pi) / (2 pi) * (width - 1);
\* src_y = (pi/2 - lat) / pi * (height - 1)
src_xy(v, img) ==
    [lon |-> arctan2(v.x, v.z), lat |-> arcsin(v.y, v.n2),
     sx |-> img.width - 1, sy |-> img.height - 1]

\* ------------------------------------------------------------------------
\* Resampling a whole face, and the projection as one call
\* ------------------------------------------------------------------------
CvError == "cv2.error"

\* cv2.remap(equirect_img, map_x, map_y, INTER_LINEAR, borderMode=BORDER_WRAP):
\* the face whose pixel k is the panorama sampled at src[k]
remap_face(img, size, src) == [img |-> img, size |-> size, src |-> src]

\* cv2.remap handed an empty map or an empty source either raises or hands
\* back an image: both outcomes are kept
remap_outcomes(img, size) ==
    IF size = 0 \/ img.height = 0 \/ img.width = 0
    THEN {"returned", CvError}
    ELSE {"returned"}

perspective_projection(equirect_img, size, yaw, pitch, roll) ==
    LET grid == ray_grid(size)
        R    == compose_rotation(yaw, pitch, roll)
    IN  IF grid.exc # "none" THEN grid
        ELSE IF R.exc # "none" THEN R
        ELSE Return(remap_face(equirect_img, size,
                [k \in 1..Len(grid.val) |->
                    src_xy(rotate(R.val, fov_scale(normalize(grid.val[k]))),
                           equirect_img)]))

\* ------------------------------------------------------------------------
\* equirectangular_to_cubemap
\* ------------------------------------------------------------------------
face_angles_left_as_right ==
    [front |-> <<0, 0, 0>>, right |-> <<90, 0, 0>>,
     back |-> <<180, 0, 0>>, left |-> <<90, 0, 0>>]

face_angles ==
    [front |-> <<0, 0, 0>>, right |-> <<90, 0, 0>>,
     back |-> <<180, 0, 0>>, left |-> <<-90, 0, 0>>]

\* for face in ['front', 'right', 'back', 'left']
face_order == <<"front", "right", "back", "left">>

\* the (yaw, pitch, roll) of the calls the loop makes, in order
cubemap_calls == [i \in 1..Len(face_order) |-> face_angles[face_order[i]]]

\* the list of faces returned, for an image and a size the engine accepts
equirectangular_to_cubemap(img, size) ==
    [i \in 1..Len(cubemap_calls) |->
        perspective_projection(img, size, cubemap_calls[i][1],
                               cubemap_calls[i][2], cubemap_calls[i][3]).val]

\* ------------------------------------------------------------------------
\* cv2.remap on one destination pixel: INTER_LINEAR with BORDER_WRAP
\* ------------------------------------------------------------------------
\* Map coordinates are in units of 1/64 pixel.  remap rounds them to
\* INTER_TAB_SIZE steps per pixel and blends the 2x2
\* neighbours with the weights of that fraction.
INTER_TAB_SIZE == 32

\* cvRound(v * INTER_TAB_SIZE) for v = c / 64: c / 2 rounded half to even
cvRound_half(c) ==
    LET lo == c \div 2
    IN  IF c % 2 = 0 THEN lo
        ELSE IF lo % 2 = 0 THEN lo ELSE lo + 1

\* BORDER_REPLICATE: clamp into 0 .. len - 1
border_replicate(p, len) == IF p < 0 THEN 0 ELSE IF p >= len THEN len - 1 ELSE p

\* cv::borderInterpolate(p, len, BORDER_WRAP)
borderInterpolate(p, len) == p % len

\* the rows and columns read, and the resulting 8-bit value
remap_pixel(pano, x, y) ==
    LET height == Len(pano)
        width  == Len(pano[1])
        ix  == cvRound_half(x)
        iy  == cvRound_half(y)
        sx  == ix \div INTER_TAB_SIZE
        sy  == iy \div INTER_TAB_SIZE
        fx  == ix % INTER_TAB_SIZE
        fy  == iy % INTER_TAB_SIZE
        sx0 == borderInterpolate(sx, width)
        sx1 == borderInterpolate(sx + 1, width)
        sy0 == borderInterpolate(sy, height)
        sy1 == borderInterpolate(sy + 1, height)
        acc == (INTER_TAB_SIZE - fx) * (INTER_TAB_SIZE - fy) * pano[sy0 + 1][sx0 + 1]
             + fx * (INTER_TAB_SIZE - fy) * pano[sy0 + 1][sx1 + 1]
             + (INTER_TAB_SIZE - fx) * fy * pano[sy1 + 1][sx0 + 1]
             + fx * fy * pano[sy1 + 1][sx1 + 1]
        one == INTER_TAB_SIZE * INTER_TAB_SIZE
    IN  [cols |-> <<sx0, sx1>>, rows |-> <<sy0, sy1>>,
         out |-> (acc + one \div 2) \div one]

\* ------------------------------------------------------------------------
\* Initial values
\* ------------------------------------------------------------------------
Angles == {-90, 0, 90, 180}

Pixels == {10, 200}

Panoramas ==
    UNION { [1..h -> [1..w -> Pixels]] : h \in 1..MaxRows, w \in 1..MaxCols }

\* map coordinates from one pixel before the first to one past the last
\* row or column, in steps of 1/2 pixel, and 1/64 beside each
Coords(len) == { 32 * k + o : k \in (-2)..(2 * len), o \in {0, 1} }

BatchIdle ==
    /\ listing = <<>> /\ disk = <<>> /\ face_size = 1 /\ idx = 1
    /\ written = <<>> /\ files = <<>> /\ pc = "done"

EngineIdle ==
    /\ e_img = NoneImg /\ e_size = 0 /\ e_todo = <<>> /\ e_ang = <<0, 0, 0>>
    /\ e_pc = "idle" /\ e_vec = <<>> /\ e_R = <<>> /\ e_map = <<>>
    /\ e_faces = <<>> /\ e_err = "none"
    /\ rm_axis = "" /\ rm_out = Raise("not called")

ResampleIdle ==
    /\ r_pano = <<>> /\ r_x = 0 /\ r_y = 0 /\ r_cols = <<>> /\ r_rows = <<>>
    /\ r_out = 0 /\ r_pc = "idle"

\* ------------------------------------------------------------------------
\* process_panoramas
\* ------------------------------------------------------------------------
\* os.listdir: distinct names in any order; cv2.imread decodes each or not
Listings ==
    { l \in UNION { [1..n -> FileNames] : n \in 0..MaxEntries } :
        \A i, j \in 1..Len(l) : i # j => l[i] # l[j] }

DecodedImages == { Image(2, 4) }

BatchInit ==
    /\ listing \in Listings
    /\ disk \in [1..Len(listing) -> DecodedImages \cup {NoneImg}]
    /\ face_size \in 1..MaxFaceSize
    /\ idx = 1
    /\ written = <<>>
    /\ files = <<>>
    /\ pc = "loop"

\* the four cv2.imwrite calls of one entry, in order
imwrites(filename, cubemap_faces) ==
    LET base_name == splitext(filename)[1]
        n == IF Len(face_names) < Len(cubemap_faces)
             THEN Len(face_names) ELSE Len(cubemap_faces)
    IN  [i \in 1..n |->
            [path |-> output_path(base_name, face_names[i]),
             image |-> cubemap_faces[i],
             entry |-> filename]]

\* the output folder after a sequence of cv2.imwrite calls
RECURSIVE store(_, _)
store(folder, writes) ==
    IF writes = <<>> THEN folder
    ELSE LET w == Head(writes)
         IN  store([q \in DOMAIN folder \cup {w.path} |->
                        IF q = w.path THEN w.image ELSE folder[q]],
                   Tail(writes))

\* the extension test fails: nothing happens for this entry
SkipOther ==
    /\ pc = "loop" /\ idx <= Len(listing)
    /\ ~accepted(listing[idx])
    /\ idx' = idx + 1
    /\ UNCHANGED <<listing, disk, face_size, written, files, pc>>
    /\ UNCHANGED <<e_vars, rm_vars, r_vars>>

continue_break(i) == Len(listing) + 1

continue(i) == i + 1

\* img is None: print and continue
SkipUnreadable ==
    /\ pc = "loop" /\ idx <= Len(listing)
    /\ accepted(listing[idx])
    /\ disk[idx].none
    /\ idx' = continue(idx)
    /\ UNCHANGED <<listing, disk, face_size, written, files, pc>>
    /\ UNCHANGED <<e_vars, rm_vars, r_vars>>

\* the body of the loop for a decoded entry
ProcessEntry ==
    /\ pc = "loop" /\ idx <= Len(listing)
    /\ accepted(listing[idx])
    /\ ~disk[idx].none
    /\ LET cubemap_faces == equirectangular_to_cubemap(disk[idx], face_size)
           writes == imwrites(listing[idx], cubemap_faces)
       IN  /\ written' = written \o writes
           /\ files' = store(files, writes)
    /\ idx' = idx + 1
    /\ UNCHANGED <<listing, disk, face_size, pc>>
    /\ UNCHANGED <<e_vars, rm_vars, r_vars>>

\* the listing is exhausted: process_panoramas returns
Finish ==
    /\ pc = "loop" /\ idx > Len(listing)
    /\ pc' = "done"
    /\ UNCHANGED <<listing, disk, face_size, idx, written, files>>
    /\ UNCHANGED <<e_vars, rm_vars, r_vars>>

Init == BatchInit /\ EngineIdle /\ ResampleIdle

Next == SkipOther \/ SkipUnreadable \/ ProcessEntry \/ Finish

Spec == Init /\ [][Next]_vars

\* ------------------------------------------------------------------------
\* Properties of process_panoramas
\* ------------------------------------------------------------------------
\* the imwrite calls made for entry i, in order
writes_of(i) == SelectSeq(written, LAMBDA w : w.entry = listing[i])

decoded(i) == accepted(listing[i]) /\ ~disk[i].none

unreadable(i) == accepted(listing[i]) /\ disk[i].none

\* C1: an entry whose decode fails is skipped with no output written for it,
\* and the loop goes on: every entry the loop has passed that has an accepted
\* extension and decodes has its four outputs written, and the run ends only
\* when the whole listing has been passed.
C1_DecodeFailureSkipped ==
    /\ idx <= Len(listing) + 1
    /\ \A i \in 1..Len(listing) :
        /\ unreadable(i) => Len(writes_of(i)) = 0
        /\ (i < idx /\ decoded(i)) => Len(writes_of(i)) = Len(face_order)
    /\ pc = "done" => idx = Len(listing) + 1

C1_Witness ==
    /\ pc = "done"
    /\ \E i, j \in 1..Len(listing) :
        /\ i < j /\ unreadable(i) /\ decoded(j)
        /\ Len(writes_of(i)) = 0 /\ Len(writes_of(j)) = 4

\* the name of an entry without its accepted extension; a name that is
\* nothing but dots before the extension has no extension to lose
BaseNameOf(filename) ==
    LET suffix == CHOOSE e \in Extensions : endswith(lower(filename), e)
        rest   == SubSeq(filename, 1, Len(filename) - Len(suffix))
    IN  IF \A k \in 1..Len(rest) : rest[k] = "." THEN filename ELSE rest

PresetOf(face) ==
    CASE face = "front" -> <<0, 0, 0>>
      [] face = "right" -> <<90, 0, 0>>
      [] face = "back"  -> <<180, 0, 0>>
      [] face = "left"  -> <<-90, 0, 0>>

\* C5: every decoded entry gets exactly four outputs, written in the order
\* front, right, back, left, each at <base name>_<face>.jpg, and the image
\* written under a face name is the projection with that face's preset.
C5_FourNamedFaces ==
    \A i \in 1..Len(listing) :
        (i < idx /\ decoded(i)) =>
            LET ws == writes_of(i)
                order == <<"front", "right", "back", "left">>
            IN  /\ Len(ws) = 4
                /\ \A k \in 1..4 :
                    /\ ws[k].path = BaseNameOf(listing[i]) \o <<"_">>
                                    \o chars(order[k]) \o <<".", "j", "p", "g">>
                    /\ ws[k].image =
                        perspective_projection(disk[i], face_size,
                            PresetOf(order[k])[1], PresetOf(order[k])[2],
                            PresetOf(order[k])[3]).val

C5_Witness ==
    /\ pc = "done"
    /\ face_size > 1
    /\ \E i \in 1..Len(listing) :
        /\ decoded(i) /\ Len(writes_of(i)) = 4
        /\ listing[i] = <<"a", ".", "b", ".", "j", "p", "e", "g">>

\* C10: when the run is over no output path has been written for two
\* different entries, so the output folder holds four files per decoded entry.
C10_NoOutputOverwritten ==
    pc = "done" =>
        /\ \A k, m \in 1..Len(written) :
            written[k].path = written[m].path => written[k].entry = written[m].entry
        /\ Cardinality(DOMAIN files)
            = 4 * Cardinality({i \in 1..Len(listing) : decoded(i)})

\* ------------------------------------------------------------------------
\* The engine, one step of perspective_projection at a time
\* ------------------------------------------------------------------------
\* img.shape can hold a zero; face_size is any small integer
EngineImages == { Image(h, w) : h \in 0..2, w \in {0, 4} }

AxisInputs == {"x", "y", "z", "w", "Y", ""}

\* equirectangular_to_cubemap makes the four preset calls; a caller of
\* perspective_projection makes one call with angles of its own; a caller
\* of rotation_matrix makes no projection at all
EngineInit ==
    /\ e_img \in EngineImages
    /\ e_size \in (-1)..MaxFaceSize
    /\ e_todo \in {cubemap_calls, <<>>}
                  \cup { <<a>> : a \in Angles \X Angles \X Angles }
    /\ e_ang = <<0, 0, 0>>
    /\ e_pc = "idle" /\ e_vec = <<>> /\ e_R = <<>> /\ e_map = <<>>
    /\ e_faces = <<>> /\ e_err = "none"
    /\ rm_axis = "" /\ rm_out = Raise("not called")

\* perspective_projection is entered with the next (yaw, pitch, roll)
Call ==
    /\ e_pc = "idle" /\ e_err = "none" /\ e_todo # <<>>
    /\ e_ang' = Head(e_todo)
    /\ e_todo' = Tail(e_todo)
    /\ e_pc' = "grid"
    /\ e_vec' = <<>> /\ e_R' = <<>> /\ e_map' = <<>>
    /\ UNCHANGED <<e_img, e_size, e_faces, e_err>>
    /\ UNCHANGED <<b_vars, rm_vars, r_vars>>

\* linspace, meshgrid, ones_like
GenerateGrid ==
    /\ e_pc = "grid"
    /\ LET grid == ray_grid(e_size)
       IN  IF grid.exc # "none"
           THEN /\ e_err' = grid.exc /\ e_pc' = "idle" /\ e_vec' = e_vec
           ELSE /\ e_vec' = grid.val /\ e_pc' = "norm" /\ e_err' = e_err
    /\ UNCHANGED <<e_img, e_size, e_todo, e_ang, e_R, e_map, e_faces>>
    /\ UNCHANGED <<b_vars, rm_vars, r_vars>>

\* division by the norm, scaling by tan(fov / 2)
Normalize ==
    /\ e_pc = "norm"
    /\ e_vec' = [k \in 1..Len(e_vec) |-> fov_scale(normalize(e_vec[k]))]
    /\ e_pc' = "rot"
    /\ UNCHANGED <<e_img, e_size, e_todo, e_ang, e_R, e_map, e_faces, e_err>>
    /\ UNCHANGED <<b_vars, rm_vars, r_vars>>

\* the three rotation_matrix calls, R = R_roll @ R_pitch @ R_yaw, R @ vec
Rotate ==
    /\ e_pc = "rot"
    /\ LET R == compose_rotation(e_ang[1], e_ang[2], e_ang[3])
       IN  IF R.exc # "none"
           THEN /\ e_err' = R.exc /\ e_pc' = "idle"
                /\ UNCHANGED <<e_R, e_vec>>
           ELSE /\ e_R' = R.val
                /\ e_vec' = [k \in 1..Len(e_vec) |-> rotate(R.val, e_vec[k])]
                /\ e_pc' = "map" /\ e_err' = e_err
    /\ UNCHANGED <<e_img, e_size, e_todo, e_ang, e_map, e_faces>>
    /\ UNCHANGED <<b_vars, rm_vars, r_vars>>

\* arctan2, arcsin, pixel coordinates in the panorama
MapToEquirect ==
    /\ e_pc = "map"
    /\ e_map' = [k \in 1..Len(e_vec) |-> src_xy(e_vec[k], e_img)]
    /\ e_pc' = "remap"
    /\ UNCHANGED <<e_img, e_size, e_todo, e_ang, e_vec, e_R, e_faces, e_err>>
    /\ UNCHANGED <<b_vars, rm_vars, r_vars>>

\* cv2.remap and the return of the face
Resample ==
    /\ e_pc = "remap"
    /\ \E outcome \in remap_outcomes(e_img, e_size) :
        IF outcome = "returned"
        THEN /\ e_faces' = Append(e_faces, remap_face(e_img, e_size, e_map))
             /\ e_err' = e_err
        ELSE /\ e_err' = outcome
             /\ e_faces' = e_faces
    /\ e_pc' = "idle"
    /\ UNCHANGED <<e_img, e_size, e_todo, e_ang, e_vec, e_R, e_map>>
    /\ UNCHANGED <<b_vars, rm_vars, r_vars>>

\* rotation_matrix called directly, with any axis selector
CallRotationMatrix ==
    /\ e_pc = "idle" /\ e_todo = <<>> /\ e_faces = <<>> /\ e_err = "none"
    /\ \E axis \in AxisInputs, deg \in Angles :
        /\ rm_axis' = axis
        /\ rm_out' = rotation_matrix(deg2rad(deg), axis)
    /\ UNCHANGED <<e_vars, b_vars, r_vars>>

InitEngine == BatchIdle /\ EngineInit /\ ResampleIdle

NextEngine ==
    \/ Call \/ GenerateGrid \/ Normalize \/ Rotate \/ MapToEquirect
    \/ Resample \/ CallRotationMatrix

SpecEngine == InitEngine /\ [][NextEngine]_vars

\* ------------------------------------------------------------------------
\* cv2.remap on one destination pixel
\* ------------------------------------------------------------------------
ResampleInit ==
    /\ r_pano \in Panoramas
    /\ r_x = 0 /\ r_y = 0 /\ r_cols = <<>> /\ r_rows = <<>> /\ r_out = 0
    /\ r_pc = "ready"

\* one destination pixel whose map entry is (x, y) / 64
SamplePixel ==
    /\ r_pc = "ready"
    /\ \E x \in Coords(Len(r_pano[1])), y \in Coords(Len(r_pano)) :
        LET s == remap_pixel(r_pano, x, y)
        IN  /\ r_x' = x /\ r_y' = y
            /\ r_cols' = s.cols /\ r_rows' = s.rows /\ r_out' = s.out
    /\ r_pc' = "done"
    /\ UNCHANGED r_pano
    /\ UNCHANGED <<b_vars, e_vars, rm_vars>>

InitResample == BatchIdle /\ EngineIdle /\ ResampleInit

NextResample == SamplePixel

SpecResample == InitResample /\ [][NextResample]_vars

\* ------------------------------------------------------------------------
\* Properties of the engine
\* ------------------------------------------------------------------------
Degenerate == e_img.width <= 0 \/ e_img.height <= 0 \/ e_size <= 0

\* C2: with a panorama width or height <= 0, or face_size <= 0, the call is
\* rejected on entry: no grid is generated, nothing is mapped or resampled,
\* and no face is returned.
C2_DegenerateRejectedOnEntry ==
    (Degenerate /\ e_img \in EngineImages) =>
        /\ e_pc \in {"idle", "grid"}
        /\ e_faces = <<>>

Forward == [x |-> 0, y |-> 0, z |-> 1, n2 |-> 1]

\* C6: with face_size = 1 the call does not fail and the grid is the single
\* point (x, y) = (0, 0), the ray (0, 0, 1); the front face then samples
\* longitude 0, latitude 0.
C6_SingleCentralRay ==
    (e_size = 1 /\ e_img.height > 0 /\ e_img.width > 0) =>
        /\ e_err = "none"
        /\ e_pc \in {"norm", "rot"} =>
            /\ Len(e_vec) = 1
            /\ e_vec[1].x = 0 /\ e_vec[1].y = 0 /\ e_vec[1].z > 0
        /\ (e_pc = "remap" /\ e_ang = <<0, 0, 0>>) =>
            /\ e_map[1].lon = <<0, 1>>
            /\ e_map[1].lat[1] = 0

Direction(v) == <<v.x, v.y, v.z>>

\* C7: the rotation composed for yaw 90, pitch 0, roll 0 sends (0, 0, 1) to
\* (1, 0, 0); the yaws 0, 90, 180, -90 send it to +z, +x, -z, -x, four
\* horizontal directions that are pairwise perpendicular or opposite.
C7_YawConvention ==
    (e_pc \in {"map", "remap"} /\ e_ang[2] = 0 /\ e_ang[3] = 0) =>
        LET d == Direction(rotate(e_R, Forward))
        IN  /\ e_ang[1] = 0   => d = <<0, 0, 1>>
            /\ e_ang[1] = 90  => d = <<1, 0, 0>>
            /\ e_ang[1] = 180 => d = <<0, 0, -1>>
            /\ e_ang[1] = -90 => d = <<-1, 0, 0>>

C7_Witness ==
    /\ e_pc = "map" /\ e_ang = <<90, 0, 0>>
    /\ Direction(rotate(e_R, Forward)) = <<1, 0, 0>>

\* C9: rotation_matrix raises, and returns no matrix, for every axis selector
\* other than 'x', 'y', 'z'; no call of perspective_projection ends with
\* that exception.
C9_InvalidAxisOnlyByDirectCall ==
    /\ (rm_out.exc # "not called" /\ rm_axis \notin {"x", "y", "z"}) =>
            (rm_out.exc = InvalidAxis /\ rm_out.val = <<>>)
    /\ (rm_out.exc # "not called" /\ rm_axis \in {"x", "y", "z"}) =>
            rm_out.exc = "none"
    /\ e_err # InvalidAxis

C9_Witness ==
    /\ rm_axis = "w"
    /\ rm_out.exc = InvalidAxis

\* the four faces of one equirectangular_to_cubemap call have been returned
CubemapDone ==
    /\ e_pc = "idle" /\ e_todo = <<>> /\ Len(e_faces) = Len(face_order)
    /\ e_img.height > 0 /\ e_img.width > 0

column(k) == ((k - 1) % e_size) + 1

Cells == 1..(e_size * e_size)

r_height == Len(r_pano)

r_width == Len(r_pano[1])

\* the value bilinear interpolation gives when the rows and columns read
\* are rows <<t, b>> and columns <<l, r>>
Blend(x, y, rows, cols) ==
    LET fx == cvRound_half(x) % 32
        fy == cvRound_half(y) % 32
    IN  ( (32 - fx) * (32 - fy) * r_pano[rows[1] + 1][cols[1] + 1]
        + fx * (32 - fy) * r_pano[rows[1] + 1][cols[2] + 1]
        + (32 - fx) * fy * r_pano[rows[2] + 1][cols[1] + 1]
        + fx * fy * r_pano[rows[2] + 1][cols[2] + 1] + 512 ) \div 1024

FloorRow == cvRound_half(r_y) \div 32

FloorCol == cvRound_half(r_x) \div 32

InRangeY == 0 <= r_y /\ r_y <= 64 * (r_height - 1)

\* C4: a neighbour column -1 reads column width - 1 and a neighbour column
\* width reads column 0; for an in-range src_y the samples at src_x = -0.5
\* and at src_x = width - 0.5 are both the equal-weight blend of column
\* width - 1 and column 0, hence equal.
C4_HorizontalWrap ==
    r_pc = "done" =>
        /\ FloorCol = -1 => r_cols[1] = r_width - 1
        /\ FloorCol + 1 = r_width => r_cols[2] = 0
        /\ (InRangeY /\ r_x \in {-32, 64 * r_width - 32}) =>
            /\ cvRound_half(r_x) % 32 = 16
            /\ r_out = Blend(r_x, r_y,
                             <<FloorRow, border_replicate(FloorRow + 1, r_height)>>,
                             <<r_width - 1, 0>>)

C4_Witness ==
    /\ r_pc = "done" /\ r_x = -32 /\ InRangeY
    /\ r_width >= 2
    /\ r_pano[FloorRow + 1][1] # r_pano[FloorRow + 1][r_width]
    /\ r_out = remap_pixel(r_pano, 64 * r_width - 32, r_y).out

====
